---------------------------- MODULE Spec2Model ----------------------------
(* Model of the online-exam server: the exam, question and answer handlers *)
(* (server/src/handlers) over the PostgreSQL tables of server/src/db/schema. *)
(* A handler is an async function; every `await db...execute()` is one      *)
(* database statement, and statements of concurrent requests interleave.    *)
EXTENDS Integers, Sequences, FiniteSets, TLC

-----------------------------------------------------------------------------
(* Bounds of the model *)

\* the ids requests name; a table's serial never runs past them
ExamIds == {1}
UserIds == {1, 2}
MaxQuestions == 1
MaxAnswers == 2
QuestionIds == 1..MaxQuestions
AnswerIds == 1..MaxAnswers
\* largest question set of the scoring specification
MaxScoreQuestions == 40

-----------------------------------------------------------------------------
(* Strings, JSON maps (Record<string, string>) and nullable columns *)

Digits == <<"0", "1", "2", "3", "4", "5", "6", "7", "8", "9">>

\* Number.prototype.toString() of a non-negative integer: its decimal digits
RECURSIVE IdToString(_)
IdToString(n) ==
  IF n < 10 THEN Digits[n + 1] ELSE IdToString(n \div 10) \o Digits[(n % 10) + 1]

\* a JSON object is a function from its own keys (strings) to strings
EmptyMap == [k \in {} |-> ""]

\* JavaScript truthiness of obj[key]: undefined (no such key) and "" are falsy
Truthy(obj, key) == key \in DOMAIN obj /\ obj[key] # ""

\* delete obj[key]
DeleteKey(obj, key) == [k \in (DOMAIN obj) \ {key} |-> obj[k]]

\* a nullable JSON column: <<>> is SQL NULL, <<m>> holds the object m
Null == <<>>
Some(m) == <<m>>
IsNull(c) == Len(c) = 0

-----------------------------------------------------------------------------
(* IEEE-754 binary64 arithmetic of (correct / total) * 100 and Math.round.  *)
(* A significand of 53 bits is kept as five limbs <<top, l1, l2, l3, l4>>:  *)
(* the integer part and four base-8192 digits (4 * 13 = 52 fraction bits).  *)
(* A positive double is [m, k]: the value (top + 0.l1 l2 l3 l4) / 2^k.       *)

Limb == 8192

RECURSIVE Pow2(_)
Pow2(k) == IF k = 0 THEN 1 ELSE 2 * Pow2(k - 1)

\* least k with c * 2^k >= n, for 1 <= c <= n
RECURSIVE NormShift(_, _)
NormShift(c, n) == IF c >= n THEN 0 ELSE 1 + NormShift(2 * c, n)

\* the limbs plus inc (0 or 1) on the last limb, which has `radix` values;
\* carries run up into the integer part
AddToLast(m, inc, radix) ==
  LET s4 == m[5] + inc
      s3 == m[4] + (s4 \div radix)
      s2 == m[3] + (s3 \div Limb)
      s1 == m[2] + (s2 \div Limb)
  IN  <<m[1] + (s1 \div Limb), s1 % Limb, s2 % Limb, s3 % Limb, s4 % radix>>

\* the double nearest to c / n (round to nearest, ties to even), 1 <= c <= n
DoubleDiv(c, n) ==
  LET k == NormShift(c, n)
      r0 == c * Pow2(k) - n
      d1 == (r0 * Limb) \div n
      r1 == (r0 * Limb) % n
      d2 == (r1 * Limb) \div n
      r2 == (r1 * Limb) % n
      d3 == (r2 * Limb) \div n
      r3 == (r2 * Limb) % n
      d4 == (r3 * Limb) \div n
      r4 == (r3 * Limb) % n
      guard == 2 * r4 >= n
      sticky == 2 * r4 # n /\ r4 # 0
      up == guard /\ (sticky \/ d4 % 2 = 1)
  IN  [m |-> AddToLast(<<1, d1, d2, d3, d4>>, IF up THEN 1 ELSE 0, Limb), k |-> k]

\* the double nearest to d * 100: the exact product has 59 or 60 bits, of
\* which the low 6 or 7 are rounded away (the last limb keeps 13 - s bits)
DoubleTimes100(d) ==
  LET p4 == d.m[5] * 100
      p3 == d.m[4] * 100 + (p4 \div Limb)
      p2 == d.m[3] * 100 + (p3 \div Limb)
      p1 == d.m[2] * 100 + (p2 \div Limb)
      p0 == d.m[1] * 100 + (p1 \div Limb)
      s == IF p0 >= 128 THEN 7 ELSE 6
      low == (p4 % Limb) % Pow2(s)
      kept == (p4 % Limb) \div Pow2(s)
      guard == low \div Pow2(s - 1) = 1
      sticky == low % Pow2(s - 1) # 0
      up == guard /\ (sticky \/ kept % 2 = 1)
  IN  [m |-> AddToLast(<<p0, p1 % Limb, p2 % Limb, p3 % Limb, kept>>,
                       IF up THEN 1 ELSE 0, Limb \div Pow2(s)),
       k |-> d.k]

\* Math.round of a positive double: the nearest integer, a tie going to the
\* larger one, which is floor(x) plus the first fraction bit of x
MathRound(d) ==
  LET half == IF d.k = 0 THEN d.m[2] \div (Limb \div 2)
              ELSE (d.m[1] \div Pow2(d.k - 1)) % 2
  IN  (d.m[1] \div Pow2(d.k)) + half

\* Math.round((correct / total) * 100) as JavaScript evaluates it
RoundedPercent(correct, total) ==
  IF correct = 0 THEN 0 ELSE MathRound(DoubleTimes100(DoubleDiv(correct, total)))

-----------------------------------------------------------------------------
(* The database: one set of rows per table of db/schema.ts. Timestamps that *)
(* no handler reads back (created_at, waktu_submit) are left out.           *)

VARIABLES
  users,      \* usersTable: rows [id]
  exams,      \* examsTable: rows [id, tanggal_mulai, tanggal_selesai, status]
  questions,  \* questionsTable: rows [id, exam_id, jawaban_benar]
  answers,    \* answersTable: rows [id, exam_id, user_id, jawaban, nilai,
              \*   is_submitted, progress_jawaban]
  serial,     \* the next value of each table's serial id
  proc,       \* the request each server task is handling and where it stands
  last,       \* the statement or call executed last, with its outcome
  submits     \* history: per answer id, how many submitExam calls succeeded
              \*   (counted up to 2)

vars == <<users, exams, questions, answers, serial, proc, last, submits>>
tables == <<users, exams, questions, answers>>

Ids(rows) == {r.id : r \in rows}
Row(rows, id) == CHOOSE r \in rows : r.id = id

\* error messages thrown by the handlers and raised by the database
Ok == "ok"
ErrDuplicateAnswer == "Answer record already exists for this user and exam"
ErrUserNotFound == "User not found"
ErrExamNotFound == "Exam not found"
ErrAnswerNotFound == "Answer record not found"
ErrProgressSubmitted == "Cannot update progress for submitted exam"
ErrAlreadySubmitted == "Exam has already been submitted"
ErrQuestionNotFound == "Question with ID does not exist"
ErrExamMissing == "Exam with ID does not exist"
ErrDateOrder == "Tanggal selesai harus setelah tanggal mulai"
ErrForeignKey == "violates foreign key constraint"
ErrTypeError == "TypeError: undefined is not an object"

-----------------------------------------------------------------------------
(* SQL statements of the handlers, as functions of the tables *)

\* db.select().from(answersTable).where(user_id = u and exam_id = e)
AnswersOfPair(ans, e, u) == {a \in ans : a.user_id = u /\ a.exam_id = e}

\* db.select().from(answersTable).where(exam_id = e)
AnswersOfExam(ans, e) == {a \in ans : a.exam_id = e}

\* db.select().from(questionsTable).where(exam_id = e)
QuestionsOfExam(qs, e) == {q \in qs : q.exam_id = e}

\* the references() constraints of answersTable, checked by the insert
AnswerKeysExist(us, es, e, u) == e \in Ids(es) /\ u \in Ids(us)

\* variant: the insert leaves is_submitted and progress_jawaban to their
\* column defaults
NewAnswer_Defaults(id, input) ==
  [id |-> id, exam_id |-> input.exam_id, user_id |-> input.user_id,
   jawaban |-> input.jawaban, nilai |-> 0,
   is_submitted |-> FALSE,
   progress_jawaban |-> Null]

\* the row createAnswer inserts
NewAnswer(id, input) ==
  [id |-> id, exam_id |-> input.exam_id, user_id |-> input.user_id,
   jawaban |-> input.jawaban, nilai |-> 0,
   is_submitted |-> input.is_submitted,
   progress_jawaban |-> input.progress_jawaban]

\* variant: the update lays the new keys over the stored progress map
SetProgress_Merging(ans, id, progress) ==
  {IF a.id = id
     THEN [a EXCEPT !.progress_jawaban =
             IF IsNull(@) THEN Some(progress) ELSE Some(progress @@ @[1])]
     ELSE a : a \in ans}

\* db.update(answersTable).set({progress_jawaban}).where(id = id)
SetProgress(ans, id, progress) ==
  {IF a.id = id THEN [a EXCEPT !.progress_jawaban = Some(progress)] ELSE a : a \in ans}

\* db.update(answersTable).set({jawaban, nilai, is_submitted: true}).where(id = id)
SetSubmission(ans, id, jawaban, score) ==
  {IF a.id = id
     THEN [a EXCEPT !.jawaban = jawaban, !.nilai = score, !.is_submitted = TRUE]
     ELSE a : a \in ans}

\* variant: the update writes the row back as a fresh, unsubmitted one
SetMaps_Reopening(ans, id, jawaban, progress) ==
  {IF a.id = id
     THEN [a EXCEPT !.jawaban = jawaban, !.progress_jawaban = progress,
                    !.is_submitted = FALSE]
     ELSE a : a \in ans}

\* db.update(answersTable).set({jawaban, progress_jawaban}).where(id = id)
SetMaps(ans, id, jawaban, progress) ==
  {IF a.id = id
     THEN [a EXCEPT !.jawaban = jawaban, !.progress_jawaban = progress]
     ELSE a : a \in ans}

\* variant: the edit drops the whole map with the key
PrunedMap_Clearing(obj, questionId) ==
  IF Truthy(obj, IdToString(questionId)) THEN EmptyMap ELSE obj

\* deleteQuestion's edit of one fetched answer: the key goes when its value
\* is truthy
PrunedMap(obj, questionId) ==
  IF Truthy(obj, IdToString(questionId)) THEN DeleteKey(obj, IdToString(questionId))
  ELSE obj

PrunedProgress(progress, questionId) ==
  IF IsNull(progress) THEN progress ELSE Some(PrunedMap(progress[1], questionId))

\* the whole loop of deleteQuestion over the fetched rows, each written back
\* where its id still is
RECURSIVE PruneAll(_, _, _)
PruneAll(ans, fetched, questionId) ==
  IF fetched = {} THEN ans
  ELSE LET a == CHOOSE x \in fetched : TRUE
       IN  PruneAll(SetMaps(ans, a.id, PrunedMap(a.jawaban, questionId),
                            PrunedProgress(a.progress_jawaban, questionId)),
                    fetched \ {a}, questionId)

-----------------------------------------------------------------------------
(* calculateScore *)

\* the number of fetched questions the answers get right
CorrectAnswers(qs, userAnswers) ==
  Cardinality({q \in qs : Truthy(userAnswers, IdToString(q.id))
                          /\ userAnswers[IdToString(q.id)] = q.jawaban_benar})

calculateScore(qs, examId, userAnswers) ==
  LET fetched == QuestionsOfExam(qs, examId)
  IN  IF Cardinality(fetched) = 0 THEN 0
      ELSE RoundedPercent(CorrectAnswers(fetched, userAnswers), Cardinality(fetched))

-----------------------------------------------------------------------------
(* Inputs the requests are drawn from *)

Symbols == {"A", "B"}

InputMaps ==
  { ("1" :> "A"),
    ("1" :> "") @@ ("2" :> "B") }

\* createAnswerInputSchema after parsing; `progress_jawaban || null` and
\* `is_submitted || false` keep an object and a boolean as they are
CreateAnswerInputs ==
  {[exam_id |-> e, user_id |-> u, jawaban |-> c[1], is_submitted |-> c[2],
    progress_jawaban |-> c[3]] :
     e \in ExamIds, u \in UserIds,
     c \in { <<EmptyMap, FALSE, Null>>,
             <<EmptyMap, FALSE, Some(("1" :> "A"))>>,
             <<("1" :> "A"), TRUE, Null>> }}

\* createExamInputSchema: one window that is in order and one that is not
CreateExamInputs ==
  { [tanggal_mulai |-> 1, tanggal_selesai |-> 2, status |-> "aktif"],
    [tanggal_mulai |-> 2, tanggal_selesai |-> 2, status |-> "aktif"] }

\* updateExamInputSchema: every field optional (Null when absent)
UpdateExamInputs ==
  { [tanggal_mulai |-> Some(2), tanggal_selesai |-> Null, status |-> Null],
    [tanggal_mulai |-> Some(1), tanggal_selesai |-> Some(2), status |-> Some("aktif")] }

Idle == [pc |-> "idle"]
Procs == {1, 2}

\* a call and its outcome; a refused call is recorded with the ids it named.
\* The arguments a[1], a[2], ... are preceded at index 0 by the name of the
\* operation, so that the records of two operations differ there
Call(op, a, err) == [op |-> op, a |-> (0 :> op) @@ a, err |-> err]

\* one more successful submitExam on `id`
Counted(count, id) == [count EXCEPT ![id] = IF @ < 2 THEN @ + 1 ELSE @]

Init ==
  /\ users = {}
  /\ exams = {}
  /\ questions = {}
  /\ answers = {}
  /\ serial = [user |-> 1, exam |-> 1, question |-> 1, answer |-> 1]
  /\ proc = [p \in Procs |-> Idle]
  /\ last = Call("init", <<>>, Ok)
  /\ submits = [id \in AnswerIds |-> 0]

-----------------------------------------------------------------------------
(* The handlers, each call run from its first statement to its last *)

createUser ==
  /\ serial.user \in UserIds
  /\ users' = users \cup {[id |-> serial.user]}
  /\ serial' = [serial EXCEPT !.user = @ + 1]
  /\ last' = Call("createUser", <<serial.user>>, Ok)
  /\ UNCHANGED <<exams, questions, answers, proc, submits>>

\* the delete is refused while an answer row references the user
deleteUser(id) ==
  LET err == IF \E a \in answers : a.user_id = id THEN ErrForeignKey
             ELSE IF id \notin Ids(users) THEN ErrUserNotFound
             ELSE Ok
  IN  /\ users' = IF err = Ok THEN {u \in users : u.id # id} ELSE users
      /\ last' = Call("deleteUser", <<id>>, err)
      /\ UNCHANGED <<exams, questions, answers, serial, proc, submits>>

createExam(input) ==
  LET err == IF input.tanggal_selesai <= input.tanggal_mulai THEN ErrDateOrder ELSE Ok
  IN  /\ err = Ok => serial.exam \in ExamIds
      /\ exams' = IF err = Ok
                    THEN exams \cup {[id |-> serial.exam,
                                      tanggal_mulai |-> input.tanggal_mulai,
                                      tanggal_selesai |-> input.tanggal_selesai,
                                      status |-> input.status]}
                    ELSE exams
      /\ serial' = IF err = Ok THEN [serial EXCEPT !.exam = @ + 1] ELSE serial
      /\ last' = Call("createExam", IF err = Ok THEN <<input>> ELSE <<>>, err)
      /\ UNCHANGED <<users, questions, answers, proc, submits>>

\* variant: a date given alone is not compared with the stored other date
UpdateExamError_BothOnly(es, id, input) ==
  LET hasStart == ~IsNull(input.tanggal_mulai)
      hasEnd == ~IsNull(input.tanggal_selesai)
  IN  IF hasStart /\ hasEnd /\ input.tanggal_selesai[1] <= input.tanggal_mulai[1]
        THEN ErrDateOrder
      ELSE IF (hasStart \/ hasEnd) /\ ~(hasStart /\ hasEnd) /\ id \notin Ids(es)
        THEN ErrExamNotFound
      ELSE Ok

\* the checks updateExam makes before its update statement
UpdateExamError(es, id, input) ==
  LET hasStart == ~IsNull(input.tanggal_mulai)
      hasEnd == ~IsNull(input.tanggal_selesai)
  IN  IF hasStart /\ hasEnd /\ input.tanggal_selesai[1] <= input.tanggal_mulai[1]
        THEN ErrDateOrder
      ELSE IF (hasStart \/ hasEnd) /\ ~(hasStart /\ hasEnd)
        THEN IF id \notin Ids(es) THEN ErrExamNotFound
             ELSE LET newStart == IF hasStart THEN input.tanggal_mulai[1]
                                  ELSE Row(es, id).tanggal_mulai
                      newEnd == IF hasEnd THEN input.tanggal_selesai[1]
                                ELSE Row(es, id).tanggal_selesai
                  IN  IF newEnd <= newStart THEN ErrDateOrder ELSE Ok
      ELSE Ok

\* db.update(examsTable).set(updateData).where(id = id)
SetExam(es, id, input) ==
  {IF e.id = id
     THEN [e EXCEPT
             !.tanggal_mulai = IF IsNull(input.tanggal_mulai) THEN @
                               ELSE input.tanggal_mulai[1],
             !.tanggal_selesai = IF IsNull(input.tanggal_selesai) THEN @
                                 ELSE input.tanggal_selesai[1],
             !.status = IF IsNull(input.status) THEN @ ELSE input.status[1]]
     ELSE e : e \in es}

updateExam(id, input) ==
  LET pre == UpdateExamError(exams, id, input)
      err == IF pre # Ok THEN pre
             ELSE IF id \notin Ids(exams) THEN ErrExamNotFound ELSE Ok
  IN  /\ exams' = IF pre = Ok THEN SetExam(exams, id, input) ELSE exams
      /\ last' = Call("updateExam", IF err = Ok THEN <<id, input>> ELSE <<id>>, err)
      /\ UNCHANGED <<users, questions, answers, serial, proc, submits>>

\* variant: the delete of the answers has no where clause
deleteExam_AllAnswers(id) ==
  /\ answers' = {}
  /\ questions' = questions \ QuestionsOfExam(questions, id)
  /\ exams' = {e \in exams : e.id # id}
  /\ last' = Call("deleteExam", <<id>>, IF id \in Ids(exams) THEN Ok ELSE ErrExamNotFound)
  /\ UNCHANGED <<users, serial, proc, submits>>

\* variant: the result of the last delete is not looked at
deleteExam_Unchecked(id) ==
  /\ answers' = answers \ AnswersOfExam(answers, id)
  /\ questions' = questions \ QuestionsOfExam(questions, id)
  /\ exams' = {e \in exams : e.id # id}
  /\ last' = Call("deleteExam", <<id>>, Ok)
  /\ UNCHANGED <<users, serial, proc, submits>>

deleteExam(id) ==
  /\ answers' = answers \ AnswersOfExam(answers, id)
  /\ questions' = questions \ QuestionsOfExam(questions, id)
  /\ exams' = {e \in exams : e.id # id}
  /\ last' = Call("deleteExam", <<id>>, IF id \in Ids(exams) THEN Ok ELSE ErrExamNotFound)
  /\ UNCHANGED <<users, serial, proc, submits>>

createQuestion(examId, jawabanBenar) ==
  LET err == IF examId \notin Ids(exams) THEN ErrExamMissing ELSE Ok
  IN  /\ err = Ok => serial.question \in QuestionIds
      /\ questions' = IF err = Ok
                        THEN questions \cup {[id |-> serial.question, exam_id |-> examId,
                                              jawaban_benar |-> jawabanBenar]}
                        ELSE questions
      /\ serial' = IF err = Ok THEN [serial EXCEPT !.question = @ + 1] ELSE serial
      /\ last' = Call("createQuestion", IF err = Ok THEN <<examId, jawabanBenar>> ELSE <<examId>>, err)
      /\ UNCHANGED <<users, exams, answers, proc, submits>>

\* db.update(questionsTable).set({jawaban_benar}).where(id = id)
SetQuestion(qs, id, jawabanBenar) ==
  {IF q.id = id THEN [q EXCEPT !.jawaban_benar = jawabanBenar] ELSE q : q \in qs}

updateQuestion(id, jawabanBenar) ==
  LET err == IF id \notin Ids(questions) THEN ErrQuestionNotFound ELSE Ok
  IN  /\ questions' = IF err = Ok THEN SetQuestion(questions, id, jawabanBenar)
                      ELSE questions
      /\ last' = Call("updateQuestion", IF err = Ok THEN <<id, jawabanBenar>> ELSE <<id>>, err)
      /\ UNCHANGED <<users, exams, answers, serial, proc, submits>>

deleteQuestion(id) ==
  LET err == IF id \notin Ids(questions) THEN ErrQuestionNotFound ELSE Ok
  IN  /\ answers' = IF err = Ok
                      THEN PruneAll(answers,
                                    AnswersOfExam(answers, Row(questions, id).exam_id), id)
                      ELSE answers
      /\ questions' = IF err = Ok THEN {q \in questions : q.id # id} ELSE questions
      /\ last' = Call("deleteQuestion", <<id>>, err)
      /\ UNCHANGED <<users, exams, serial, proc, submits>>

\* variant: createAnswer without its select of the pair
CreateAnswerError_NoPairCheck(us, es, ans, input) ==
  IF input.user_id \notin Ids(us) THEN ErrUserNotFound
  ELSE IF input.exam_id \notin Ids(es) THEN ErrExamNotFound
  ELSE Ok

\* variant: createAnswer refuses an exam whose status is not 'aktif'
CreateAnswerError_Gated(us, es, ans, input) ==
  IF AnswersOfPair(ans, input.exam_id, input.user_id) # {} THEN ErrDuplicateAnswer
  ELSE IF input.user_id \notin Ids(us) THEN ErrUserNotFound
  ELSE IF input.exam_id \notin Ids(es) THEN ErrExamNotFound
  ELSE IF Row(es, input.exam_id).status # "aktif" THEN ErrExamNotFound
  ELSE Ok

\* the checks createAnswer makes before its insert, in the order it makes them
CreateAnswerError(us, es, ans, input) ==
  IF AnswersOfPair(ans, input.exam_id, input.user_id) # {} THEN ErrDuplicateAnswer
  ELSE IF input.user_id \notin Ids(us) THEN ErrUserNotFound
  ELSE IF input.exam_id \notin Ids(es) THEN ErrExamNotFound
  ELSE Ok

createAnswer(input) ==
  LET err == CreateAnswerError(users, exams, answers, input)
  IN  /\ err = Ok => serial.answer \in AnswerIds
      /\ answers' = IF err = Ok THEN answers \cup {NewAnswer(serial.answer, input)}
                    ELSE answers
      /\ serial' = IF err = Ok THEN [serial EXCEPT !.answer = @ + 1] ELSE serial
      /\ last' = Call("createAnswer",
                   IF err = Ok THEN <<input.exam_id, input.user_id, input>>
                   ELSE <<input.exam_id, input.user_id>>, err)
      /\ UNCHANGED <<users, exams, questions, proc, submits>>

\* variant: updateProgress without its is_submitted check
UpdateProgressError_NoSubmittedCheck(ans, id) ==
  IF id \notin Ids(ans) THEN ErrAnswerNotFound ELSE Ok

\* the checks updateProgress makes on the row it selected
UpdateProgressError(ans, id) ==
  IF id \notin Ids(ans) THEN ErrAnswerNotFound
  ELSE IF Row(ans, id).is_submitted THEN ErrProgressSubmitted
  ELSE Ok

updateProgress(id, progress) ==
  LET err == UpdateProgressError(answers, id)
  IN  /\ answers' = IF err = Ok THEN SetProgress(answers, id, progress) ELSE answers
      /\ last' = Call("updateProgress", IF err = Ok THEN <<id, progress>> ELSE <<id>>, err)
      /\ UNCHANGED <<users, exams, questions, serial, proc, submits>>

\* variant: submitExam without its is_submitted check
SubmitExamError_NoSubmittedCheck(ans, id) ==
  IF id \notin Ids(ans) THEN ErrAnswerNotFound ELSE Ok

\* the checks submitExam makes on the row it selected
SubmitExamError(ans, id) ==
  IF id \notin Ids(ans) THEN ErrAnswerNotFound
  ELSE IF Row(ans, id).is_submitted THEN ErrAlreadySubmitted
  ELSE Ok

submitExam(id, jawaban) ==
  LET err == SubmitExamError(answers, id)
  IN  /\ answers' = IF err = Ok
                      THEN SetSubmission(answers, id, jawaban,
                             calculateScore(questions, Row(answers, id).exam_id, jawaban))
                      ELSE answers
      /\ last' = Call("submitExam", IF err = Ok THEN <<id, jawaban>> ELSE <<id>>, err)
      /\ submits' = IF err = Ok THEN Counted(submits, id) ELSE submits
      /\ UNCHANGED <<users, exams, questions, serial, proc>>

\* variant: the select filters on the exam only
getUserAnswer_AnyUser(examId, userId) ==
  LET results == AnswersOfExam(answers, examId)
  IN  /\ \E answer \in (IF results = {} THEN {Null} ELSE {Some(r) : r \in results}) :
           last' = Call("getUserAnswer", <<examId, userId, answer>>, Ok)
      /\ UNCHANGED <<tables, serial, proc, submits>>

\* one select; results[0] of a select without ORDER BY is any matching row
getUserAnswer(examId, userId) ==
  LET results == AnswersOfPair(answers, examId, userId)
  IN  /\ \E answer \in (IF results = {} THEN {Null} ELSE {Some(r) : r \in results}) :
           last' = Call("getUserAnswer", <<examId, userId, answer>>, Ok)
      /\ UNCHANGED <<tables, serial, proc, submits>>

\* variant: only the submitted answers are selected, and an exam without
\* any counts as missing
getAnswersByExamId_SubmittedOnly(examId) ==
  LET results == {a \in AnswersOfExam(answers, examId) : a.is_submitted}
  IN  /\ last' = IF examId \notin Ids(exams) \/ results = {}
                   THEN Call("getAnswersByExamId", <<examId>>, ErrExamNotFound)
                   ELSE Call("getAnswersByExamId", <<examId, results>>, Ok)
      /\ UNCHANGED <<tables, serial, proc, submits>>

\* select the exam, then select the exam's answers
getAnswersByExamId(examId) ==
  /\ last' = IF examId \notin Ids(exams)
               THEN Call("getAnswersByExamId", <<examId>>, ErrExamNotFound)
               ELSE Call("getAnswersByExamId",
                         <<examId, AnswersOfExam(answers, examId)>>, Ok)
  /\ UNCHANGED <<tables, serial, proc, submits>>

Next ==
  \/ createUser
  \/ \E id \in UserIds : deleteUser(id)
  \/ \E input \in CreateExamInputs : createExam(input)
  \/ \E id \in ExamIds, input \in UpdateExamInputs : updateExam(id, input)
  \/ \E id \in ExamIds : deleteExam(id)
  \/ \E e \in ExamIds, s \in Symbols : createQuestion(e, s)
  \/ \E id \in QuestionIds, s \in Symbols : updateQuestion(id, s)
  \/ \E id \in QuestionIds : deleteQuestion(id)
  \/ \E input \in CreateAnswerInputs : createAnswer(input)
  \/ \E id \in AnswerIds, m \in InputMaps : updateProgress(id, m)
  \/ \E id \in AnswerIds, m \in InputMaps : submitExam(id, m)
  \/ \E e \in ExamIds, u \in UserIds : getUserAnswer(e, u)
  \/ \E e \in ExamIds : getAnswersByExamId(e)

Spec == Init /\ [][Next]_vars

-----------------------------------------------------------------------------
(* Exam windows and the clock: the exam handlers with every window over the *)
(* instants 1..MaxTime, the two listings that read the clock, and the       *)
(* answer handlers beside them                                              *)

MaxTime == 3
Times == 1..MaxTime
\* what `new Date()` can give: before, at and after every stored instant
Nows == 0..(MaxTime + 1)
Statuses == {"aktif", "non-aktif"}

ExamInputs ==
  {[tanggal_mulai |-> s, tanggal_selesai |-> e, status |-> st] :
     s \in Times, e \in Times, st \in Statuses}

ExamUpdates ==
  {[tanggal_mulai |-> s, tanggal_selesai |-> e, status |-> st] :
     s \in {Null} \cup {Some(t) : t \in Times},
     e \in {Null} \cup {Some(t) : t \in Times},
     st \in {Null} \cup {Some(x) : x \in Statuses}}

\* variant: an exam is no longer listed at the instant it ends
ActiveExams_EndExclusive(es, now) ==
  {e \in es : e.status = "aktif" /\ e.tanggal_mulai <= now /\ e.tanggal_selesai > now}

\* select where status = 'aktif' and tanggal_mulai <= now and
\* tanggal_selesai >= now
ActiveExams(es, now) ==
  {e \in es : e.status = "aktif" /\ e.tanggal_mulai <= now /\ e.tanggal_selesai >= now}

getActiveExams(now) ==
  /\ last' = Call("getActiveExams", <<now, ActiveExams(exams, now)>>, Ok)
  /\ UNCHANGED <<tables, serial, proc, submits>>

\* the select of getExamsForParticipant; userId is not used
ParticipantExams(es, userId, now) ==
  {e \in es : e.status = "aktif" /\ e.tanggal_mulai <= now /\ e.tanggal_selesai >= now}

\* variant: exams the user has handed in are left out
getExamsForParticipant_Unanswered(userId, now) ==
  /\ last' = Call("getExamsForParticipant",
                  <<userId, now,
                    {e \in ParticipantExams(exams, userId, now) :
                       ~\E a \in answers :
                          a.exam_id = e.id /\ a.user_id = userId /\ a.is_submitted}>>,
                  Ok)
  /\ UNCHANGED <<tables, serial, proc, submits>>

getExamsForParticipant(userId, now) ==
  /\ last' = Call("getExamsForParticipant",
                  <<userId, now, ParticipantExams(exams, userId, now)>>, Ok)
  /\ UNCHANGED <<tables, serial, proc, submits>>

\* a server with one user and no exam yet
InitExam ==
  /\ users = {[id |-> 1]}
  /\ exams = {}
  /\ questions = {}
  /\ answers = {}
  /\ serial = [user |-> 2, exam |-> 1, question |-> 1, answer |-> 1]
  /\ proc = [p \in Procs |-> Idle]
  /\ last = Call("init", <<>>, Ok)
  /\ submits = [id \in AnswerIds |-> 0]

NextExam ==
  \/ \E input \in ExamInputs : createExam(input)
  \/ \E id \in ExamIds, input \in ExamUpdates : updateExam(id, input)
  \/ \E now \in Nows : getActiveExams(now)
  \/ \E u \in UserIds, now \in Nows : getExamsForParticipant(u, now)
  \/ \E input \in CreateAnswerInputs : createAnswer(input)
  \/ \E id \in AnswerIds : updateProgress(id, ("1" :> "A"))
  \/ \E id \in AnswerIds : submitExam(id, ("1" :> "A"))

SpecExam == InitExam /\ [][NextExam]_vars

-----------------------------------------------------------------------------
(* The question procedures of the router: the input schema is applied to    *)
(* what the client sent, and the handler runs on what passed                *)

MaxChoices == 5
\* what a client can send as pilihan: lists of 3..MaxChoices strings
ChoiceLists ==
  {[i \in 1..n |-> "pilihan"] : n \in 3..MaxChoices} \cup { <<"w", "x", "y", "z">> }
\* what a client can send as jawaban_benar
SentSymbols == {"A", "B", "C", "D", "E"}
SentExamIds == {1, 2}
SentQuestionIds == 1..(MaxQuestions + 1)

ErrBadRequest == "BAD_REQUEST"
\* `Exam with ID ${input.exam_id} does not exist`
ExamDoesNotExist(examId) == "Exam with ID " \o IdToString(examId) \o " does not exist"

CreateQuestionSent ==
  {[exam_id |-> e, pilihan |-> c, jawaban_benar |-> s] :
     e \in SentExamIds, c \in ChoiceLists, s \in SentSymbols}

UpdateQuestionSent ==
  {[id |-> id, pilihan |-> c, jawaban_benar |-> s] :
     id \in SentQuestionIds,
     c \in {Null} \cup {Some(x) : x \in ChoiceLists},
     s \in {Null} \cup {Some(x) : x \in SentSymbols}}

\* variant: the list of choices may have any length
createQuestionInputSchema_AnyLength(sent) ==
  sent.jawaban_benar \in {"A", "B", "C", "D"}

\* pilihan: z.array(z.string()).length(4), jawaban_benar: z.enum(A, B, C, D)
createQuestionInputSchema(sent) ==
  /\ Len(sent.pilihan) = 4
  /\ sent.jawaban_benar \in {"A", "B", "C", "D"}

\* the same two fields, each optional
updateQuestionInputSchema(sent) ==
  /\ IsNull(sent.pilihan) \/ Len(sent.pilihan[1]) = 4
  /\ IsNull(sent.jawaban_benar) \/ sent.jawaban_benar[1] \in {"A", "B", "C", "D"}

\* createQuestion behind its input schema
createQuestion_procedure(sent) ==
  LET err == IF ~createQuestionInputSchema(sent) THEN ErrBadRequest
             ELSE IF sent.exam_id \notin Ids(exams) THEN ExamDoesNotExist(sent.exam_id)
             ELSE Ok
  IN  /\ err = Ok => serial.question \in SentQuestionIds
      /\ questions' = IF err = Ok
                        THEN questions \cup {[id |-> serial.question,
                                              exam_id |-> sent.exam_id,
                                              pilihan |-> sent.pilihan,
                                              jawaban_benar |-> sent.jawaban_benar]}
                        ELSE questions
      /\ serial' = IF err = Ok THEN [serial EXCEPT !.question = @ + 1] ELSE serial
      /\ last' = Call("createQuestion",
                      IF err = Ok THEN <<sent.exam_id, sent>> ELSE <<sent.exam_id>>, err)
      /\ UNCHANGED <<users, exams, answers, proc, submits>>

\* db.update(questionsTable).set(updateData).where(id = id)
SetQuestionData(qs, sent) ==
  {IF q.id = sent.id
     THEN [q EXCEPT
             !.pilihan = IF IsNull(sent.pilihan) THEN @ ELSE sent.pilihan[1],
             !.jawaban_benar = IF IsNull(sent.jawaban_benar) THEN @
                               ELSE sent.jawaban_benar[1]]
     ELSE q : q \in qs}

\* updateQuestion behind its input schema
updateQuestion_procedure(sent) ==
  LET err == IF ~updateQuestionInputSchema(sent) THEN ErrBadRequest
             ELSE IF sent.id \notin Ids(questions) THEN ErrQuestionNotFound
             ELSE Ok
  IN  /\ questions' = IF err = Ok THEN SetQuestionData(questions, sent) ELSE questions
      /\ last' = Call("updateQuestion", IF err = Ok THEN <<sent.id, sent>> ELSE <<sent.id>>, err)
      /\ UNCHANGED <<users, exams, answers, serial, proc, submits>>

\* variant: the select returns whole rows
ParticipantQuestions_WholeRows(qs, examId) ==
  QuestionsOfExam(qs, examId)

\* select id, exam_id, pilihan from questions where exam_id = examId
ParticipantQuestions(qs, examId) ==
  {[id |-> q.id, exam_id |-> q.exam_id, pilihan |-> q.pilihan] :
     q \in QuestionsOfExam(qs, examId)}

getQuestionsForParticipant(examId) ==
  /\ last' = Call("getQuestionsForParticipant",
                  <<examId, ParticipantQuestions(questions, examId)>>, Ok)
  /\ UNCHANGED <<tables, serial, proc, submits>>

\* a server with one exam and no question yet
InitQuestion ==
  /\ users = {}
  /\ exams = {[id |-> 1, tanggal_mulai |-> 1, tanggal_selesai |-> 2, status |-> "aktif"]}
  /\ questions = {}
  /\ answers = {}
  /\ serial = [user |-> 1, exam |-> 2, question |-> 1, answer |-> 1]
  /\ proc = [p \in Procs |-> Idle]
  /\ last = Call("init", <<>>, Ok)
  /\ submits = [id \in AnswerIds |-> 0]

NextQuestion ==
  \/ \E sent \in CreateQuestionSent : createQuestion_procedure(sent)
  \/ \E sent \in UpdateQuestionSent : updateQuestion_procedure(sent)
  \/ \E e \in SentExamIds : getQuestionsForParticipant(e)

SpecQuestion == InitQuestion /\ [][NextQuestion]_vars

-----------------------------------------------------------------------------
(* Credentials: the user handlers store a password, loginUser verifies one. *)
(* A string is the sequence of its character codes.                         *)

\* passwords of 6, 7 and 8 characters: "secret", "a:b:cd1", "passw0rd"
Passwords ==
  { <<115, 101, 99, 114, 101, 116>>,
    <<97, 58, 98, 58, 99, 100, 49>>,
    <<112, 97, 115, 115, 119, 48, 114, 100>> }
Emails == {"a@ujian.id", "b@ujian.id"}
Colon == 58

\* the character of a 6-bit value in the base64 alphabet A-Z a-z 0-9 + /
Base64Char(v) ==
  IF v < 26 THEN 65 + v
  ELSE IF v < 52 THEN 97 + (v - 26)
  ELSE IF v < 62 THEN 48 + (v - 52)
  ELSE IF v = 62 THEN 43 ELSE 47

\* Buffer.from(bytes).toString('base64'): 3 bytes give 4 characters, the
\* last 1 or 2 bytes give 2 or 3 characters and '=' to fill up
RECURSIVE Base64(_)
Base64(bytes) ==
  LET n == Len(bytes)
  IN  IF n = 0 THEN <<>>
      ELSE IF n = 1
        THEN LET b == bytes[1] * 16
             IN  <<Base64Char(b \div 64), Base64Char(b % 64), 61, 61>>
      ELSE IF n = 2
        THEN LET b == (bytes[1] * 256 + bytes[2]) * 4
             IN  <<Base64Char(b \div 4096), Base64Char((b \div 64) % 64),
                   Base64Char(b % 64), 61>>
      ELSE LET b == bytes[1] * 65536 + bytes[2] * 256 + bytes[3]
           IN  <<Base64Char(b \div 262144), Base64Char((b \div 4096) % 64),
                 Base64Char((b \div 64) % 64), Base64Char(b % 64)>>
                 \o Base64(SubSeq(bytes, 4, n))

\* hashPassword of the user handlers
hashPassword(password) == Base64(password)

\* hashedPassword.split(':')
RECURSIVE Split(_)
Split(str) ==
  IF \A i \in 1..Len(str) : str[i] # Colon THEN <<str>>
  ELSE LET i == CHOOSE k \in 1..Len(str) :
                  str[k] = Colon /\ \A j \in 1..(k - 1) : str[j] # Colon
       IN  <<SubSeq(str, 1, i - 1)>> \o Split(SubSeq(str, i + 1, Len(str)))

\* pbkdf2Sync(password, salt, 10000, 64, 'sha512').toString('hex'): the
\* digest stands as the pair it was derived from, so that two digests are
\* equal exactly when password and salt are
Pbkdf2Hex(password, salt) == password \o <<0>> \o salt

verifyPassword(password, hashedPassword) ==
  LET parts == Split(hashedPassword)
  IN  IF Len(parts) # 2 THEN FALSE
      ELSE Pbkdf2Hex(password, parts[1]) = parts[2]

ErrUnique == "duplicate key value violates unique constraint"

CreateUserInputs == {[email |-> e, password |-> p] : e \in Emails, p \in Passwords}

UpdateUserInputs ==
  {[id |-> id, email |-> e, password |-> p] :
     id \in UserIds,
     e \in {Null} \cup {Some(x) : x \in Emails},
     p \in {Null} \cup {Some(x) : x \in Passwords}}

\* createUser with the email and the password of its input; email is unique
createUser_input(input) ==
  LET err == IF \E u \in users : u.email = input.email THEN ErrUnique ELSE Ok
  IN  /\ serial.user \in UserIds
      /\ users' = IF err = Ok
                    THEN users \cup {[id |-> serial.user, email |-> input.email,
                                      password |-> hashPassword(input.password)]}
                    ELSE users
      /\ serial' = [serial EXCEPT !.user = @ + 1]
      /\ last' = Call("createUser", <<input.email, input.password>>, err)
      /\ UNCHANGED <<exams, questions, answers, proc, submits>>

updateUser(input) ==
  LET err == IF /\ ~IsNull(input.email)
                /\ \E u \in users : u.id # input.id /\ u.email = input.email[1]
                /\ input.id \in Ids(users)
               THEN ErrUnique
             ELSE IF input.id \notin Ids(users) THEN ErrUserNotFound
             ELSE Ok
  IN  /\ users' = IF err = Ok
                    THEN {IF u.id = input.id
                            THEN [u EXCEPT
                                    !.email = IF IsNull(input.email) THEN @
                                              ELSE input.email[1],
                                    !.password = IF IsNull(input.password) THEN @
                                                 ELSE hashPassword(input.password[1])]
                            ELSE u : u \in users}
                    ELSE users
      /\ last' = Call("updateUser", <<input.id, input>>, err)
      /\ UNCHANGED <<exams, questions, answers, serial, proc, submits>>

resetUserPassword(id, newPassword) ==
  LET err == IF id \notin Ids(users) THEN ErrUserNotFound ELSE Ok
  IN  /\ users' = {IF u.id = id THEN [u EXCEPT !.password = hashPassword(newPassword)]
                   ELSE u : u \in users}
      /\ last' = Call("resetUserPassword", <<id, newPassword>>, err)
      /\ UNCHANGED <<exams, questions, answers, serial, proc, submits>>

\* select the user of the email, verify the password against the stored one
loginUser(input) ==
  LET found == {u \in users : u.email = input.email}
      result == IF found = {} THEN {Null}
                ELSE {IF verifyPassword(input.password, u.password) THEN Some(u) ELSE Null :
                        u \in found}
  IN  /\ \E r \in result :
           last' = Call("loginUser", <<input.email, input.password, r>>, Ok)
      /\ UNCHANGED <<tables, serial, proc, submits>>

\* a server without users
InitLogin ==
  /\ users = {}
  /\ exams = {}
  /\ questions = {}
  /\ answers = {}
  /\ serial = [user |-> 1, exam |-> 1, question |-> 1, answer |-> 1]
  /\ proc = [p \in Procs |-> Idle]
  /\ last = Call("init", <<>>, Ok)
  /\ submits = [id \in AnswerIds |-> 0]

NextLogin ==
  \/ \E input \in CreateUserInputs : createUser_input(input)
  \/ \E input \in UpdateUserInputs : updateUser(input)
  \/ \E id \in UserIds, p \in Passwords : resetUserPassword(id, p)
  \/ \E input \in CreateUserInputs : loginUser(input)

SpecLogin == InitLogin /\ [][NextLogin]_vars

-----------------------------------------------------------------------------
(* The deleting handlers on a server that holds two exams: exam 1 with two  *)
(* questions and the answers of both users, exam 2 with or without a        *)
(* question and an answer                                                   *)

DataExamIds == 1..3
DataQuestionIds == 1..4
DataAnswerIds == 1..3

\* answer maps of exam 1: both questions answered, question 1 answered with
\* the empty string, question 1 left out, nothing answered
DataMaps ==
  { ("1" :> "A") @@ ("2" :> "B"),
    ("1" :> "") @@ ("2" :> "B"),
    ("2" :> "B"),
    EmptyMap }

\* the row left by createAnswer (unsubmitted) and, when `submitted`, by a
\* submitExam of the same answers after it
StoredAnswer(qs, id, e, u, jawaban, progress, submitted) ==
  LET created == NewAnswer(id, [exam_id |-> e, user_id |-> u, jawaban |-> jawaban,
                                is_submitted |-> FALSE, progress_jawaban |-> progress])
  IN  IF submitted
        THEN CHOOSE a \in SetSubmission({created}, id, jawaban,
                                        calculateScore(qs, e, jawaban)) : TRUE
        ELSE created

InitData ==
  /\ users = {[id |-> 1], [id |-> 2]}
  /\ exams = {[id |-> e, tanggal_mulai |-> 1, tanggal_selesai |-> 2, status |-> "aktif"] :
                e \in 1..2}
  /\ \E others \in BOOLEAN, jawaban \in DataMaps, submitted \in BOOLEAN,
        progress \in {Null} \cup {Some(m) : m \in DataMaps} :
       LET qs == {[id |-> 1, exam_id |-> 1, jawaban_benar |-> "A"],
                  [id |-> 2, exam_id |-> 1, jawaban_benar |-> "B"]}
                   \cup (IF others THEN {[id |-> 3, exam_id |-> 2, jawaban_benar |-> "A"]}
                         ELSE {})
       IN  /\ questions = qs
           /\ answers =
                {StoredAnswer(qs, 1, 1, 1, jawaban, progress, submitted),
                 StoredAnswer(qs, 2, 1, 2, ("2" :> "B"), Null, TRUE)}
                  \cup (IF others
                          THEN {StoredAnswer(qs, 3, 2, 1, ("1" :> "A") @@ ("3" :> "A"),
                                             Some(("1" :> "A")), FALSE)}
                          ELSE {})
  /\ serial = [user |-> 3, exam |-> 3, question |-> 4, answer |-> 4]
  /\ proc = [p \in Procs |-> Idle]
  /\ last = Call("init", <<>>, Ok)
  /\ submits = [id \in DataAnswerIds |->
                  IF \E a \in answers : a.id = id /\ a.is_submitted THEN 1 ELSE 0]

NextData ==
  \/ \E id \in DataQuestionIds : deleteQuestion(id)
  \/ \E id \in DataExamIds : deleteExam(id)

SpecData == InitData /\ [][NextData]_vars

-----------------------------------------------------------------------------
(* The same handlers statement by statement: a server task runs one request *)
(* and yields at every await, so statements of two requests interleave.     *)

\* recorded after a statement that is not the last one of its handler
Await(op, p) == Call("await", <<>>, "await")

Finish(p) == [proc EXCEPT ![p] = Idle]
At(p, pc) == proc[p].pc = pc

\* ---- createAnswer: select the pair, select the user, select the exam, insert
createAnswer_existing(p, input) ==
  /\ At(p, "idle")
  /\ IF AnswersOfPair(answers, input.exam_id, input.user_id) # {}
       THEN /\ proc' = proc
            /\ last' = Call("createAnswer", <<input.exam_id, input.user_id>>,
                            ErrDuplicateAnswer)
       ELSE /\ proc' = [proc EXCEPT ![p] = [pc |-> "createAnswer_user", input |-> input]]
            /\ last' = Await("createAnswer", p)
  /\ UNCHANGED <<tables, serial, submits>>

createAnswer_user(p) ==
  /\ At(p, "createAnswer_user")
  /\ IF proc[p].input.user_id \notin Ids(users)
       THEN /\ proc' = Finish(p)
            /\ last' = Call("createAnswer",
                            <<proc[p].input.exam_id, proc[p].input.user_id>>,
                            ErrUserNotFound)
       ELSE /\ proc' = [proc EXCEPT ![p].pc = "createAnswer_exam"]
            /\ last' = Await("createAnswer", p)
  /\ UNCHANGED <<tables, serial, submits>>

createAnswer_exam(p) ==
  /\ At(p, "createAnswer_exam")
  /\ IF proc[p].input.exam_id \notin Ids(exams)
       THEN /\ proc' = Finish(p)
            /\ last' = Call("createAnswer",
                            <<proc[p].input.exam_id, proc[p].input.user_id>>,
                            ErrExamNotFound)
       ELSE /\ proc' = [proc EXCEPT ![p].pc = "createAnswer_insert"]
            /\ last' = Await("createAnswer", p)
  /\ UNCHANGED <<tables, serial, submits>>

\* answersTable declares two references() and no unique index on the pair
createAnswer_insert(p) ==
  LET input == proc[p].input
      err == IF AnswerKeysExist(users, exams, input.exam_id, input.user_id) THEN Ok
             ELSE ErrForeignKey
  IN  /\ At(p, "createAnswer_insert")
      /\ serial.answer \in AnswerIds
      /\ answers' = IF err = Ok THEN answers \cup {NewAnswer(serial.answer, input)}
                    ELSE answers
      /\ serial' = [serial EXCEPT !.answer = @ + 1]
      /\ proc' = Finish(p)
      /\ last' = Call("createAnswer",
                      IF err = Ok THEN <<input.exam_id, input.user_id, input>>
                      ELSE <<input.exam_id, input.user_id>>, err)
      /\ UNCHANGED <<users, exams, questions, submits>>

\* ---- updateProgress: select the row, update it
updateProgress_select(p, id, progress) ==
  LET err == UpdateProgressError(answers, id)
  IN  /\ At(p, "idle")
      /\ IF err # Ok
           THEN /\ proc' = proc
                /\ last' = Call("updateProgress", <<id>>, err)
           ELSE /\ proc' = [proc EXCEPT ![p] = [pc |-> "updateProgress_update",
                                                id |-> id, progress |-> progress]]
                /\ last' = Await("updateProgress", p)
      /\ UNCHANGED <<tables, serial, submits>>

\* result[0] of an update that matched no row is undefined, and reading
\* answer.jawaban of it throws
updateProgress_update(p) ==
  LET id == proc[p].id
      err == IF id \in Ids(answers) THEN Ok ELSE ErrTypeError
  IN  /\ At(p, "updateProgress_update")
      /\ answers' = SetProgress(answers, id, proc[p].progress)
      /\ proc' = Finish(p)
      /\ last' = Call("updateProgress",
                      IF err = Ok THEN <<id, proc[p].progress>> ELSE <<id>>, err)
      /\ UNCHANGED <<users, exams, questions, serial, submits>>

\* ---- submitExam: select the row, calculateScore (select the questions),
\* update the row
submitExam_select(p, id, jawaban) ==
  LET err == SubmitExamError(answers, id)
  IN  /\ At(p, "idle")
      /\ IF err # Ok
           THEN /\ proc' = proc
                /\ last' = Call("submitExam", <<id>>, err)
           ELSE /\ proc' = [proc EXCEPT ![p] = [pc |-> "submitExam_score", id |-> id,
                                                jawaban |-> jawaban,
                                                exam_id |-> Row(answers, id).exam_id]]
                /\ last' = Await("submitExam", p)
      /\ UNCHANGED <<tables, serial, submits>>

submitExam_score(p) ==
  /\ At(p, "submitExam_score")
  /\ proc' = [proc EXCEPT ![p] =
                [pc |-> "submitExam_update", id |-> proc[p].id,
                 jawaban |-> proc[p].jawaban,
                 score |-> calculateScore(questions, proc[p].exam_id, proc[p].jawaban)]]
  /\ last' = Await("submitExam", p)
  /\ UNCHANGED <<tables, serial, submits>>

submitExam_update(p) ==
  LET id == proc[p].id
      err == IF id \in Ids(answers) THEN Ok ELSE ErrTypeError
  IN  /\ At(p, "submitExam_update")
      /\ answers' = SetSubmission(answers, id, proc[p].jawaban, proc[p].score)
      /\ proc' = Finish(p)
      /\ last' = Call("submitExam",
                      IF err = Ok THEN <<id, proc[p].jawaban>> ELSE <<id>>, err)
      /\ submits' = IF err = Ok THEN Counted(submits, id) ELSE submits
      /\ UNCHANGED <<users, exams, questions, serial>>

\* ---- deleteQuestion: getQuestionById, select the exam's answers, one update
\* per fetched row in the order the select returned them, delete the question
deleteQuestion_get(p, id) ==
  /\ At(p, "idle")
  /\ IF id \notin Ids(questions)
       THEN /\ proc' = proc
            /\ last' = Call("deleteQuestion", <<id>>, ErrQuestionNotFound)
       ELSE /\ proc' = [proc EXCEPT ![p] = [pc |-> "deleteQuestion_select", id |-> id,
                                            exam_id |-> Row(questions, id).exam_id]]
            /\ last' = Await("deleteQuestion", p)
  /\ UNCHANGED <<tables, serial, submits>>

deleteQuestion_select(p) ==
  /\ At(p, "deleteQuestion_select")
  /\ proc' = [proc EXCEPT ![p] = [pc |-> "deleteQuestion_loop", id |-> proc[p].id,
                                  fetched |-> AnswersOfExam(answers, proc[p].exam_id)]]
  /\ last' = Await("deleteQuestion", p)
  /\ UNCHANGED <<tables, serial, submits>>

deleteQuestion_update(p) ==
  /\ At(p, "deleteQuestion_loop")
  /\ \E a \in proc[p].fetched :
       /\ answers' = SetMaps(answers, a.id, PrunedMap(a.jawaban, proc[p].id),
                             PrunedProgress(a.progress_jawaban, proc[p].id))
       /\ proc' = [proc EXCEPT ![p].fetched = @ \ {a}]
  /\ last' = Await("deleteQuestion", p)
  /\ UNCHANGED <<users, exams, questions, serial, submits>>

deleteQuestion_delete(p) ==
  /\ At(p, "deleteQuestion_loop")
  /\ proc[p].fetched = {}
  /\ questions' = {q \in questions : q.id # proc[p].id}
  /\ proc' = Finish(p)
  /\ last' = Call("deleteQuestion", <<proc[p].id>>, Ok)
  /\ UNCHANGED <<users, exams, answers, serial, submits>>

\* ---- deleteExam: delete the answers, delete the questions, delete the exam
deleteExam_answers(p, id) ==
  /\ At(p, "idle")
  /\ answers' = answers \ AnswersOfExam(answers, id)
  /\ proc' = [proc EXCEPT ![p] = [pc |-> "deleteExam_questions", id |-> id]]
  /\ last' = Await("deleteExam", p)
  /\ UNCHANGED <<users, exams, questions, serial, submits>>

deleteExam_questions(p) ==
  /\ At(p, "deleteExam_questions")
  /\ questions' = questions \ QuestionsOfExam(questions, proc[p].id)
  /\ proc' = [proc EXCEPT ![p].pc = "deleteExam_exam"]
  /\ last' = Await("deleteExam", p)
  /\ UNCHANGED <<users, exams, answers, serial, submits>>

\* variant: no foreign key guards the exam row
deleteExam_exam_NoForeignKey(p) ==
  LET id == proc[p].id
      err == IF id \notin Ids(exams) THEN ErrExamNotFound ELSE Ok
  IN  /\ At(p, "deleteExam_exam")
      /\ exams' = {e \in exams : e.id # id}
      /\ proc' = Finish(p)
      /\ last' = Call("deleteExam", <<id>>, err)
      /\ UNCHANGED <<users, questions, answers, serial, submits>>

\* the delete is refused while a question or answer row references the exam
deleteExam_exam(p) ==
  LET id == proc[p].id
      err == IF AnswersOfExam(answers, id) # {} \/ QuestionsOfExam(questions, id) # {}
               THEN ErrForeignKey
             ELSE IF id \notin Ids(exams) THEN ErrExamNotFound
             ELSE Ok
  IN  /\ At(p, "deleteExam_exam")
      /\ exams' = IF err = Ok THEN {e \in exams : e.id # id} ELSE exams
      /\ proc' = Finish(p)
      /\ last' = Call("deleteExam", <<id>>, err)
      /\ UNCHANGED <<users, questions, answers, serial, submits>>

\* question ids of the concurrent server: the question it starts with and
\* those created since
ConcQuestionIds == 1..(MaxQuestions + 1)

\* ---- createQuestion: select the exam, insert
createQuestion_select(p, examId, jawabanBenar) ==
  /\ At(p, "idle")
  /\ IF examId \notin Ids(exams)
       THEN /\ proc' = proc
            /\ last' = Call("createQuestion", <<examId>>, ErrExamMissing)
       ELSE /\ proc' = [proc EXCEPT ![p] = [pc |-> "createQuestion_insert",
                                            exam_id |-> examId,
                                            jawaban_benar |-> jawabanBenar]]
            /\ last' = Await("createQuestion", p)
  /\ UNCHANGED <<tables, serial, submits>>

createQuestion_insert(p) ==
  LET err == IF proc[p].exam_id \in Ids(exams) THEN Ok ELSE ErrForeignKey
  IN  /\ At(p, "createQuestion_insert")
      /\ serial.question \in ConcQuestionIds
      /\ questions' = IF err = Ok
                        THEN questions \cup {[id |-> serial.question,
                                              exam_id |-> proc[p].exam_id,
                                              jawaban_benar |-> proc[p].jawaban_benar]}
                        ELSE questions
      /\ serial' = [serial EXCEPT !.question = @ + 1]
      /\ proc' = Finish(p)
      /\ last' = Call("createQuestion",
                      IF err = Ok THEN <<proc[p].exam_id, proc[p].jawaban_benar>>
                      ELSE <<proc[p].exam_id>>, err)
      /\ UNCHANGED <<users, exams, answers, submits>>

\* ---- updateQuestion: getQuestionById, update
updateQuestion_get(p, id, jawabanBenar) ==
  /\ At(p, "idle")
  /\ IF id \notin Ids(questions)
       THEN /\ proc' = proc
            /\ last' = Call("updateQuestion", <<id>>, ErrQuestionNotFound)
       ELSE /\ proc' = [proc EXCEPT ![p] = [pc |-> "updateQuestion_update", id |-> id,
                                            jawaban_benar |-> jawabanBenar]]
            /\ last' = Await("updateQuestion", p)
  /\ UNCHANGED <<tables, serial, submits>>

updateQuestion_update(p) ==
  LET id == proc[p].id
      err == IF id \in Ids(questions) THEN Ok ELSE ErrTypeError
  IN  /\ At(p, "updateQuestion_update")
      /\ questions' = SetQuestion(questions, id, proc[p].jawaban_benar)
      /\ proc' = Finish(p)
      /\ last' = Call("updateQuestion",
                      IF err = Ok THEN <<id, proc[p].jawaban_benar>> ELSE <<id>>, err)
      /\ UNCHANGED <<users, exams, answers, serial, submits>>

\* ---- handlers of a single statement run as one step of a task
deleteUser_delete(p, id) == At(p, "idle") /\ deleteUser(id)

\* a running server that holds one user, one exam and one question
InitConc ==
  /\ users = {[id |-> 1]}
  /\ exams = {[id |-> 1, tanggal_mulai |-> 1, tanggal_selesai |-> 2, status |-> "aktif"]}
  /\ questions = {[id |-> 1, exam_id |-> 1, jawaban_benar |-> "A"]}
  /\ answers = {}
  /\ serial = [user |-> 2, exam |-> 2, question |-> 2, answer |-> 1]
  /\ proc = [p \in Procs |-> Idle]
  /\ last = Call("init", <<>>, Ok)
  /\ submits = [id \in AnswerIds |-> 0]

ConcAnswerInputs ==
  { [exam_id |-> 1, user_id |-> 1, jawaban |-> EmptyMap, is_submitted |-> FALSE,
     progress_jawaban |-> Null] }

\* maps the concurrent requests submit and save
ConcMaps == { ("1" :> "A"), ("1" :> "B") }

\* requests on answers racing each other and an edit of the answer key
NextConc ==
  \E p \in Procs :
    \/ \E input \in ConcAnswerInputs : createAnswer_existing(p, input)
    \/ createAnswer_user(p)
    \/ createAnswer_exam(p)
    \/ createAnswer_insert(p)
    \/ \E id \in AnswerIds : updateProgress_select(p, id, ("1" :> "A"))
    \/ updateProgress_update(p)
    \/ \E id \in AnswerIds, m \in ConcMaps : submitExam_select(p, id, m)
    \/ submitExam_score(p)
    \/ submitExam_update(p)
    \/ \E id \in QuestionIds, s \in Symbols : updateQuestion_get(p, id, s)
    \/ updateQuestion_update(p)

SpecConc == InitConc /\ [][NextConc]_vars

\* a running server that holds one exam with two questions and one open
\* answer
InitPrune ==
  /\ users = {[id |-> 1]}
  /\ exams = {[id |-> 1, tanggal_mulai |-> 1, tanggal_selesai |-> 2, status |-> "aktif"]}
  /\ questions = {[id |-> 1, exam_id |-> 1, jawaban_benar |-> "A"],
                  [id |-> 2, exam_id |-> 1, jawaban_benar |-> "B"]}
  /\ answers = {NewAnswer(1, [exam_id |-> 1, user_id |-> 1, jawaban |-> EmptyMap,
                              is_submitted |-> FALSE, progress_jawaban |-> Null])}
  /\ serial = [user |-> 2, exam |-> 2, question |-> 3, answer |-> 2]
  /\ proc = [p \in Procs |-> Idle]
  /\ last = Call("init", <<>>, Ok)
  /\ submits = [id \in AnswerIds |-> 0]

\* the map the racing requests submit and save: an answer to both questions
PruneMap == ("1" :> "A") @@ ("2" :> "B")

\* deleteQuestion racing a submission and an autosave
NextPrune ==
  \E p \in Procs :
    \/ \E id \in ConcQuestionIds : deleteQuestion_get(p, id)
    \/ deleteQuestion_select(p)
    \/ deleteQuestion_update(p)
    \/ deleteQuestion_delete(p)
    \/ \E id \in AnswerIds : updateProgress_select(p, id, PruneMap)
    \/ updateProgress_update(p)
    \/ \E id \in AnswerIds : submitExam_select(p, id, PruneMap)
    \/ submitExam_score(p)
    \/ submitExam_update(p)

SpecPrune == InitPrune /\ [][NextPrune]_vars

\* deleteExam and deleteUser racing the requests that create and submit
\* answers and create questions
NextCascade ==
  \E p \in Procs :
    \/ \E input \in ConcAnswerInputs : createAnswer_existing(p, input)
    \/ createAnswer_user(p)
    \/ createAnswer_exam(p)
    \/ createAnswer_insert(p)
    \/ \E id \in AnswerIds : submitExam_select(p, id, ("1" :> "A"))
    \/ submitExam_score(p)
    \/ submitExam_update(p)
    \/ \E id \in ExamIds : deleteExam_answers(p, id)
    \/ deleteExam_questions(p)
    \/ deleteExam_exam(p)
    \/ \E e \in ExamIds : createQuestion_select(p, e, "A")
    \/ createQuestion_insert(p)
    \/ \E id \in UserIds : deleteUser_delete(p, id)

SpecCascade == InitConc /\ [][NextCascade]_vars

-----------------------------------------------------------------------------
(* calculateScore on its own: question sets of every size up to            *)
(* MaxScoreQuestions, and answer maps that get a prefix of them right       *)

AllSymbols == <<"A", "B", "C", "D">>
ScoreSymbol(i) == AllSymbols[(i % 4) + 1]

\* exam 1 holds questions 1..n, exam 2 holds question n + 1
ScoreQuestions(n) ==
  {[id |-> i, exam_id |-> 1, jawaban_benar |-> ScoreSymbol(i)] : i \in 1..n}
    \cup {[id |-> n + 1, exam_id |-> 2, jawaban_benar |-> ScoreSymbol(n + 1)]}

\* questions 1..right answered with their correct symbol, the following
\* `wrong` questions answered with "" or with another question's symbol, the
\* others left out; the question of exam 2 is answered with its own symbol
ScoreMap(n, right, wrong) ==
  LET answered == (1..(right + wrong)) \cup {n + 1}
  IN  [key \in {IdToString(i) : i \in answered} |->
         LET i == CHOOSE j \in answered : IdToString(j) = key
         IN  IF i <= right \/ i = n + 1 THEN ScoreSymbol(i)
             ELSE IF right % 2 = 0 THEN "" ELSE ScoreSymbol(i + 1)]

ScoreMaps(n) ==
  {EmptyMap} \cup
  UNION {{ScoreMap(n, right, wrong) : wrong \in {w \in 0..1 : right + w <= n}} :
           right \in 0..n}

InitScore ==
  /\ \E n \in 0..MaxScoreQuestions : questions = ScoreQuestions(n)
  /\ users = {[id |-> 1]}
  /\ exams = {[id |-> e, tanggal_mulai |-> 1, tanggal_selesai |-> 2, status |-> "aktif"] :
                e \in 1..3}
  /\ answers = {[id |-> 1, exam_id |-> 1, user_id |-> 1, jawaban |-> EmptyMap, nilai |-> 0,
                 is_submitted |-> FALSE, progress_jawaban |-> Null]}
  /\ serial = [user |-> 2, exam |-> 4, question |-> 1, answer |-> 2]
  /\ proc = [p \in Procs |-> Idle]
  /\ last = Call("init", <<>>, Ok)
  /\ submits = [id \in AnswerIds |-> 0]

\* variant: calculateScore also stores the score in the exam's answer rows
calculateScore_call_Saving(examId, userAnswers) ==
  /\ last' = Call("calculateScore",
                  <<examId, userAnswers, calculateScore(questions, examId, userAnswers)>>,
                  Ok)
  /\ answers' = {IF a.exam_id = examId
                   THEN [a EXCEPT !.nilai = calculateScore(questions, examId, userAnswers)]
                   ELSE a : a \in answers}
  /\ UNCHANGED <<users, exams, questions, serial, proc, submits>>

\* a call of calculateScore; the score it returns is recorded with the call
calculateScore_call(examId, userAnswers) ==
  /\ last' = Call("calculateScore",
                  <<examId, userAnswers, calculateScore(questions, examId, userAnswers)>>,
                  Ok)
  /\ UNCHANGED <<tables, serial, proc, submits>>

NextScore ==
  \E examId \in 1..3, userAnswers \in ScoreMaps(Cardinality(questions) - 1) :
    /\ examId # 1 => Cardinality(DOMAIN userAnswers) <= 1
    /\ calculateScore_call(examId, userAnswers)

SpecScore == InitScore /\ [][NextScore]_vars

-----------------------------------------------------------------------------
(* Properties of the answer records                                         *)

\* C1: with createAnswer calls run one after another there is never more
\* than one answer row for an (exam_id, user_id) pair, and a createAnswer for
\* a pair that already has a row fails with the duplicate error and adds no
\* row.
C1_OneAnswerPerPair ==
  /\ [](\A a, b \in answers :
          (a.exam_id = b.exam_id /\ a.user_id = b.user_id) => a.id = b.id)
  /\ [][(last'.op = "createAnswer"
          /\ AnswersOfPair(answers, last'.a[1], last'.a[2]) # {})
        => (last'.err = ErrDuplicateAnswer /\ answers' = answers)]_vars

\* a second user's row exists beside the first and a createAnswer for a pair
\* that has a row was just refused
C1_DuplicateRefused ==
  /\ last.op = "createAnswer"
  /\ last.err = ErrDuplicateAnswer
  /\ AnswersOfPair(answers, last.a[1], last.a[2]) # {}
  /\ Cardinality(answers) = 2

C3_LaterCallsFailAlreadySubmitted ==
  [][(last'.op \in {"updateProgress", "submitExam"} /\ submits[last'.a[1]] > 0)
     => /\ last'.err = IF last'.op = "updateProgress" THEN ErrProgressSubmitted
                       ELSE ErrAlreadySubmitted
        /\ answers' = answers]_vars

\* C3 amended: once submitExam has succeeded on an answer id, every later
\* updateProgress or submitExam on that id fails and leaves the answers
\* unchanged; the failure is the already-submitted error while the row
\* exists, and the not-found error once deleteExam has removed the row.
C3_SubmissionIsFinal ==
  [][(last'.op \in {"updateProgress", "submitExam"} /\ submits[last'.a[1]] > 0)
     => /\ last'.err = IF last'.a[1] \notin Ids(answers) THEN ErrAnswerNotFound
                       ELSE IF last'.op = "updateProgress" THEN ErrProgressSubmitted
                       ELSE ErrAlreadySubmitted
        /\ answers' = answers]_vars

\* a submitExam on an id whose earlier submitExam succeeded was just refused
C3_ResubmitRefused ==
  /\ last.op = "submitExam"
  /\ last.err = ErrAlreadySubmitted
  /\ submits[last.a[1]] = 1
  /\ Row(answers, last.a[1]).is_submitted

\* C4: of the submitExam calls racing on one unsubmitted answer only one
\* succeeds: no answer id ever counts a second successful submitExam.
C4_OneSubmitSucceeds ==
  \A id \in AnswerIds : submits[id] <= 1

\* C5: createAnswer calls racing on one (exam_id, user_id) pair leave one
\* row for the pair, the other call being rejected.
C5_RacingCreatesKeepPairUnique ==
  \A e \in ExamIds, u \in UserIds : Cardinality(AnswersOfPair(answers, e, u)) <= 1

\* C6: a row that becomes submitted carries, from that step on, the score
\* calculateScore gives for its answer map against the questions its exam
\* has at that moment; no row is submitted without that score.
C6_SubmittedRowsAreScored ==
  [][\A b \in answers' :
       b.is_submitted =>
         IF \E a \in answers : a.id = b.id /\ a.is_submitted
           THEN b.nilai = Row(answers, b.id).nilai
           ELSE b.nilai = calculateScore(questions', b.exam_id, b.jawaban)]_vars

\* C7: a successful submitExam on an unsubmitted row changes that row in one
\* step to jawaban = the final map, nilai = calculateScore of the final map
\* against the questions the exam has when the row is written, is_submitted
\* = true, and changes no other row.
C7_SubmitScoresAtTheWrite ==
  [][(last'.op = "submitExam" /\ last'.err = Ok
        /\ ~Row(answers, last'.a[1]).is_submitted)
     => LET id == last'.a[1]
            finalMap == last'.a[2]
        IN  /\ Ids(answers') = Ids(answers)
            /\ \A a \in answers :
                 Row(answers', a.id) =
                   IF a.id = id
                     THEN [a EXCEPT !.jawaban = finalMap,
                                    !.nilai = calculateScore(questions, a.exam_id, finalMap),
                                    !.is_submitted = TRUE]
                     ELSE a]_vars

\* C8: calculateScore returns 0 for an exam without questions and otherwise
\* correct / total * 100 rounded to the nearest integer, halves up; the
\* result is an integer of 0..100.
C8_ScoreIsRoundedHalfUp ==
  last.op = "calculateScore" =>
    LET fetched == {q \in questions : q.exam_id = last.a[1]}
        total == Cardinality(fetched)
        correct == Cardinality({q \in fetched :
                                  /\ IdToString(q.id) \in DOMAIN last.a[2]
                                  /\ last.a[2][IdToString(q.id)] = q.jawaban_benar})
    IN  /\ last.a[3] \in 0..100
        /\ last.a[3] = IF total = 0 THEN 0
                       ELSE (200 * correct + total) \div (2 * total)

C10_ProgressIsReplaced ==
  [][(last'.op = "updateProgress" /\ last'.err = Ok)
     => LET id == last'.a[1]
            newMap == last'.a[2]
        IN  /\ ~Row(answers, id).is_submitted
            /\ Ids(answers') = Ids(answers)
            /\ \A a \in answers :
                 LET b == Row(answers', a.id)
                 IN  IF a.id = id
                       THEN /\ b.progress_jawaban = Some(newMap)
                            /\ b.jawaban = a.jawaban
                            /\ b.nilai = a.nilai
                            /\ b.is_submitted = a.is_submitted
                            /\ b.exam_id = a.exam_id
                            /\ b.user_id = a.user_id
                       ELSE b = a]_vars

\* updateProgress has just stored a one-key map in one row while another row
\* holds its own answers
C10_ProgressStored ==
  /\ last.op = "updateProgress"
  /\ last.err = Ok
  /\ DOMAIN last.a[2] = {"1"}
  /\ Row(answers, last.a[1]).progress_jawaban = Some(last.a[2])
  /\ \E a \in answers : a.id # last.a[1] /\ a.is_submitted

\* C11: updateProgress and submitExam on an id that names no answer row fail
\* with the answer-not-found error and change no row of any table;
\* updateProgress on a submitted row fails with its already-submitted error
\* and leaves the answers, the stored progress map included, as they were.
C11_MissingOrSubmittedRefused ==
  [][/\ (last'.op \in {"updateProgress", "submitExam"}
           /\ last'.a[1] \notin Ids(answers))
        => (last'.err = ErrAnswerNotFound
              /\ UNCHANGED <<users, exams, questions, answers>>)
     /\ (last'.op = "updateProgress" /\ last'.a[1] \in Ids(answers)
           /\ Row(answers, last'.a[1]).is_submitted)
        => (last'.err = ErrProgressSubmitted /\ answers' = answers)]_vars

\* an updateProgress on a submitted row that holds a progress map was just
\* refused, and the row still holds the map
C11_ProgressOfSubmittedKept ==
  /\ last.op = "updateProgress"
  /\ last.err = ErrProgressSubmitted
  /\ Row(answers, last.a[1]).is_submitted
  /\ ~IsNull(Row(answers, last.a[1]).progress_jawaban)

\* C12: createAnswer fails with the exam-not-found error whenever the exam
\* id names no exam, with the user-not-found error whenever the exam exists
\* and the user does not, and with the duplicate error when both exist and
\* the pair has a row; a failing createAnswer changes no row of any table.
C12_CreateAnswerErrors ==
  [][last'.op = "createAnswer"
     => LET e == last'.a[1]
            u == last'.a[2]
            expected == IF e \notin Ids(exams) THEN ErrExamNotFound
                        ELSE IF u \notin Ids(users) THEN ErrUserNotFound
                        ELSE IF AnswersOfPair(answers, e, u) # {} THEN ErrDuplicateAnswer
                        ELSE Ok
        IN  /\ last'.err = expected
            /\ expected # Ok => UNCHANGED <<users, exams, questions, answers>>]_vars

C14_GetUserAnswerOptional ==
  [][last'.op = "getUserAnswer"
     => LET e == last'.a[1]
            u == last'.a[2]
            answer == last'.a[3]
        IN  /\ last'.err = Ok
            /\ UNCHANGED <<users, exams, questions, answers>>
            /\ IF \A a \in answers : ~(a.exam_id = e /\ a.user_id = u)
                 THEN IsNull(answer)
                 ELSE /\ ~IsNull(answer)
                      /\ answer[1] \in answers
                      /\ answer[1].exam_id = e
                      /\ answer[1].user_id = u]_vars

\* getUserAnswer has returned null for a pair without a row while the other
\* user of the exam has one
C14_NullBesideAnotherRow ==
  /\ last.op = "getUserAnswer"
  /\ last.err = Ok
  /\ IsNull(last.a[3])
  /\ \E a \in answers : a.exam_id = last.a[1] /\ a.user_id # last.a[2]

C16_DeleteQuestionFrame ==
  [][(last'.op = "deleteQuestion" /\ last'.err = Ok)
     => LET q == last'.a[1]
            key == IdToString(q)
            e == Row(questions, q).exam_id
            OnlyKeyRemoved(old, new) ==
              /\ DOMAIN new \subseteq DOMAIN old
              /\ DOMAIN old \ {key} \subseteq DOMAIN new
              /\ \A k \in DOMAIN new : new[k] = old[k]
        IN  /\ Ids(answers') = Ids(answers)
            /\ \A a \in answers :
                 LET b == Row(answers', a.id)
                 IN  IF a.exam_id = e
                       THEN /\ b.exam_id = a.exam_id
                            /\ b.user_id = a.user_id
                            /\ b.is_submitted = a.is_submitted
                            /\ b.nilai = a.nilai
                            /\ OnlyKeyRemoved(a.jawaban, b.jawaban)
                            /\ IF IsNull(a.progress_jawaban)
                                 THEN IsNull(b.progress_jawaban)
                                 ELSE /\ ~IsNull(b.progress_jawaban)
                                      /\ OnlyKeyRemoved(a.progress_jawaban[1],
                                                        b.progress_jawaban[1])
                       ELSE b = a]_vars

\* question 1 was just deleted: a submitted answer of its exam holds key
\* "2" alone and its score, another answer of the exam has a null progress
\* map, and the answer of exam 2 still holds its key "1"
C16_KeyRemovedOthersKept ==
  /\ last.op = "deleteQuestion"
  /\ last.err = Ok
  /\ last.a[1] = 1
  /\ \E a \in answers :
       /\ a.id = 1 /\ a.is_submitted /\ a.nilai = 100
       /\ DOMAIN a.jawaban = {"2"}
       /\ ~IsNull(a.progress_jawaban) /\ DOMAIN a.progress_jawaban[1] = {"2"}
  /\ \E a \in answers : a.exam_id = 1 /\ IsNull(a.progress_jawaban)
  /\ \E a \in answers : a.exam_id = 2 /\ "1" \in DOMAIN a.jawaban

\* C17: after a successful deleteQuestion the question row is gone and no
\* answer of its exam has the question's id as a key of jawaban or of
\* progress_jawaban, whatever string was stored under the key; a
\* deleteQuestion on an id that names no question fails with the
\* question-not-found error and changes no row.
C17_NoLingeringKey ==
  [][last'.op = "deleteQuestion"
     => LET q == last'.a[1]
            key == IdToString(q)
        IN  IF q \notin Ids(questions)
              THEN /\ last'.err = ErrQuestionNotFound
                   /\ UNCHANGED <<users, exams, questions, answers>>
              ELSE /\ last'.err = Ok
                   /\ q \notin Ids(questions')
                   /\ \A b \in AnswersOfExam(answers', Row(questions, q).exam_id) :
                        /\ key \notin DOMAIN b.jawaban
                        /\ IsNull(b.progress_jawaban)
                             \/ key \notin DOMAIN b.progress_jawaban[1]]_vars

\* C18: after a successful deleteExam the exam row, every question row of
\* the exam and every answer row of the exam are gone, however many there
\* were; the rows of other exams and all user rows are as they were.
C18_DeleteExamCascades ==
  [][(last'.op = "deleteExam" /\ last'.err = Ok)
     => LET e == last'.a[1]
        IN  /\ e \notin Ids(exams')
            /\ \A q \in questions' : q.exam_id # e
            /\ \A a \in answers' : a.exam_id # e
            /\ exams' = {x \in exams : x.id # e}
            /\ questions' = {q \in questions : q.exam_id # e}
            /\ answers' = {a \in answers : a.exam_id # e}
            /\ users' = users]_vars

\* exam 1 with its two questions and two answers was just deleted; exam 2,
\* its question, its answer and both users are still stored
C18_OtherExamKept ==
  /\ last.op = "deleteExam"
  /\ last.err = Ok
  /\ last.a[1] = 1
  /\ Ids(exams) = {2}
  /\ \E q \in questions : q.exam_id = 2
  /\ \E a \in answers : a.exam_id = 2
  /\ Cardinality(users) = 2

\* C20: deleteExam on an id that names no exam fails with the
\* exam-not-found error and changes no row; deleteExam on an exam without
\* questions and answers succeeds and removes the exam row and nothing else.
C20_DeleteExamEdgeCases ==
  [][last'.op = "deleteExam"
     => LET e == last'.a[1]
        IN  /\ e \notin Ids(exams)
                 => (last'.err = ErrExamNotFound
                       /\ UNCHANGED <<users, exams, questions, answers>>)
            /\ (e \in Ids(exams)
                  /\ (\A q \in questions : q.exam_id # e)
                  /\ (\A a \in answers : a.exam_id # e))
                 => (last'.err = Ok
                       /\ exams' = exams \ {Row(exams, e)}
                       /\ e \notin Ids(exams')
                       /\ UNCHANGED <<users, questions, answers>>)]_vars

\* a deleteExam on id 3, which names no exam, was just refused while both
\* exams and the rows of exam 1 are stored
C20_MissingExamRefused ==
  /\ last.op = "deleteExam"
  /\ last.err = ErrExamNotFound
  /\ last.a[1] = 3
  /\ Ids(exams) = {1, 2}
  /\ \E q \in questions : q.exam_id = 1
  /\ \E a \in answers : a.exam_id = 1

\* C19: deleteExam is all or nothing for the handlers running beside it: a
\* step that removes answer rows of an exam, or in which deleteExam removes
\* question rows of the exam, leaves neither the exam row nor any question
\* or answer row of the exam, so that no state with a part of the cascade
\* done is there to be seen.
C19_DeleteExamAllOrNothing ==
  [][\A e \in ExamIds :
       LET answersGo == \E a \in answers : a.exam_id = e /\ a.id \notin Ids(answers')
           questionsGo == \E p \in Procs :
                            /\ proc[p].pc = "deleteExam_questions"
                            /\ proc[p].id = e
                            /\ proc'[p].pc = "deleteExam_exam"
                            /\ questions' # questions
       IN  (answersGo \/ questionsGo)
             => /\ e \notin Ids(exams')
                /\ \A q \in questions' : q.exam_id # e
                /\ \A a \in answers' : a.exam_id # e]_vars

\* C21: every stored exam ends after it starts. createExam fails with the
\* date-order error exactly when its end is not after its start; updateExam
\* on a stored exam fails with that error exactly when the end that would
\* result (the given one, else the stored one) is not after the start that
\* would result; a failed createExam or updateExam leaves the exams as they
\* were.
C21_WindowIsOrdered ==
  /\ [](\A e \in exams : e.tanggal_selesai > e.tanggal_mulai)
  /\ [][/\ \A input \in ExamInputs :
           createExam(input)
             => /\ (last'.err = ErrDateOrder)
                     <=> (input.tanggal_selesai <= input.tanggal_mulai)
                /\ last'.err # Ok => exams' = exams
       /\ \A id \in ExamIds, input \in ExamUpdates :
           updateExam(id, input)
             => /\ id \in Ids(exams)
                     => LET newStart == IF IsNull(input.tanggal_mulai)
                                          THEN Row(exams, id).tanggal_mulai
                                          ELSE input.tanggal_mulai[1]
                            newEnd == IF IsNull(input.tanggal_selesai)
                                        THEN Row(exams, id).tanggal_selesai
                                        ELSE input.tanggal_selesai[1]
                        IN  (last'.err = ErrDateOrder) <=> (newEnd <= newStart)
                /\ last'.err # Ok => exams' = exams]_vars

\* an updateExam that moves only the start onto the stored end was just
\* refused, and the stored window is still 1..2
C21_OneSidedUpdateRefused ==
  /\ last.op = "updateExam"
  /\ last.err = ErrDateOrder
  /\ \E e \in exams : e.tanggal_mulai = 1 /\ e.tanggal_selesai = 2

\* C22: getActiveExams run at the instant now returns a stored exam exactly
\* when its status is 'aktif' and tanggal_mulai <= now <= tanggal_selesai,
\* both ends included; it returns stored exams only and changes no row.
C22_ActiveExamsAreTheOpenOnes ==
  [][last'.op = "getActiveExams"
     => LET now == last'.a[1]
            result == last'.a[2]
        IN  /\ result \subseteq exams
            /\ \A e \in exams :
                 e \in result
                   <=> (e.status = "aktif" /\ e.tanggal_mulai <= now /\ now <= e.tanggal_selesai)
            /\ UNCHANGED <<users, exams, questions, answers>>]_vars

\* getActiveExams just returned an exam at the very instant it ends
C22_ListedAtItsEnd ==
  /\ last.op = "getActiveExams"
  /\ \E e \in last.a[2] : e.tanggal_selesai = last.a[1] /\ e.tanggal_mulai < last.a[1]

C28_AnswerHandlersIgnoreTheGate ==
  [][/\ last'.op = "createAnswer"
         => LET e == last'.a[1]
                u == last'.a[2]
            IN  /\ (last'.err = Ok)
                     <=> (/\ AnswersOfPair(answers, e, u) = {}
                          /\ u \in Ids(users)
                          /\ e \in Ids(exams))
                /\ last'.err = Ok
                     => \E a \in answers' :
                          /\ answers' = answers \cup {a}
                          /\ a.exam_id = e /\ a.user_id = u
                          /\ a.is_submitted = last'.a[3].is_submitted
                /\ last'.err # Ok => answers' = answers
     /\ last'.op \in {"updateProgress", "submitExam"}
         => LET id == last'.a[1]
            IN  /\ (last'.err = Ok)
                     <=> (id \in Ids(answers) /\ ~Row(answers, id).is_submitted)
                /\ (last'.err = Ok /\ last'.op = "updateProgress")
                     => Row(answers', id).progress_jawaban = Some(last'.a[2])
                /\ (last'.err = Ok /\ last'.op = "submitExam")
                     => (Row(answers', id).jawaban = last'.a[2]
                           /\ Row(answers', id).is_submitted)
                /\ last'.err # Ok => answers' = answers]_vars

\* an answer was just created for an exam whose status is 'non-aktif'
C28_CreatedForInactiveExam ==
  /\ last.op = "createAnswer"
  /\ last.err = Ok
  /\ \E e \in exams : e.id = last.a[1] /\ e.status = "non-aktif"

\* C23: getQuestionsForParticipant never shows the answer key: no row it
\* returns has a jawaban_benar field, and it returns the same rows from
\* every store that differs from the present one only in the jawaban_benar
\* values of its questions; it returns one row for each question of the
\* exam and changes no row.
C23_KeyIsNotRevealed ==
  [][last'.op = "getQuestionsForParticipant"
     => LET examId == last'.a[1]
            result == last'.a[2]
            Rekeyed == {{[q EXCEPT !.jawaban_benar = key[q.id]] : q \in questions} :
                          key \in [Ids(questions) -> {"A", "B", "C", "D"}]}
        IN  /\ \A r \in result : "jawaban_benar" \notin DOMAIN r
            /\ \A qs \in Rekeyed : ParticipantQuestions(qs, examId) = result
            /\ {r.id : r \in result} = {q.id : q \in QuestionsOfExam(questions, examId)}
            /\ UNCHANGED <<users, exams, questions, answers>>]_vars

\* the questions of an exam were just listed while two of them have
\* different correct symbols
C23_TwoKeysListed ==
  /\ last.op = "getQuestionsForParticipant"
  /\ Cardinality(last.a[2]) = 2
  /\ \E q1 \in questions, q2 \in questions :
       /\ q1.exam_id = last.a[1] /\ q2.exam_id = last.a[1]
       /\ q1.jawaban_benar # q2.jawaban_benar

\* C24: createQuestion stores a question only for an exam that exists, and
\* a call that reaches the handler for a missing exam fails with the error
\* that names the exam id and stores nothing; every stored question has
\* exactly 4 choices and a correct symbol among A, B, C, D, after every
\* createQuestion and updateQuestion.
C24_QuestionsAreWellFormed ==
  /\ [](\A q \in questions :
          Len(q.pilihan) = 4 /\ q.jawaban_benar \in {"A", "B", "C", "D"})
  /\ [][last'.op = "createQuestion"
        => LET examId == last'.a[1]
           IN  /\ questions' # questions
                    => (/\ examId \in Ids(exams)
                        /\ \E q \in questions' :
                             questions' = questions \cup {q} /\ q.exam_id = examId)
               /\ (examId \notin Ids(exams) /\ last'.err # ErrBadRequest)
                    => (/\ last'.err = "Exam with ID " \o IdToString(examId) \o " does not exist"
                        /\ questions' = questions)]_vars

\* a question is stored whose choices and correct symbol were both replaced
\* by an updateQuestion
C24_UpdatedQuestionStored ==
  /\ last.op = "updateQuestion"
  /\ last.err = Ok
  /\ ~IsNull(last.a[2].pilihan)
  /\ ~IsNull(last.a[2].jawaban_benar)
  /\ Row(questions, last.a[1]).pilihan = last.a[2].pilihan[1]
  /\ Row(questions, last.a[1]).jawaban_benar = last.a[2].jawaban_benar[1]

\* C25: the progress write of updateProgress is conditional on the row
\* being unsubmitted when it is written: in no step does the progress map
\* of a row change that is already submitted before the step.
C25_ProgressFrozenOnceSubmitted ==
  [][\A a \in answers :
       (a.is_submitted /\ a.id \in Ids(answers'))
         => Row(answers', a.id).progress_jawaban = a.progress_jawaban]_vars

\* C26: in every state between the statements of the handlers no reference
\* dangles: the exam_id of every question and of every answer names a
\* stored exam and the user_id of every answer names a stored user, also
\* between the three deletes of deleteExam and after deleteUser.
C26_NoDanglingReference ==
  /\ \A q \in questions : q.exam_id \in Ids(exams)
  /\ \A a \in answers : a.exam_id \in Ids(exams) /\ a.user_id \in Ids(users)

\* a deleteExam stands between its delete of the questions and its delete
\* of the exam, a question having been stored for the exam since, while a
\* deleteUser has just been refused for the answer that references the user
C26_MidCascadeWithNewRows ==
  /\ \E p \in Procs : proc[p].pc = "deleteExam_exam"
                        /\ QuestionsOfExam(questions, proc[p].id) # {}
  /\ last.op = "deleteUser"
  /\ last.err = ErrForeignKey

\* C27: the pruning of deleteQuestion loses no write that committed since it
\* read the answers: a write-back of deleteQuestion leaves every answer row
\* with the answer map and the progress map stored just before it, less the
\* key of the deleted question.
C27_PruningKeepsCommittedMaps ==
  [][\A p \in Procs :
       (proc[p].pc = "deleteQuestion_loop" /\ proc'[p] # proc[p])
         => LET key == IdToString(proc[p].id)
                Less(m) == [k \in DOMAIN m \ {key} |-> m[k]]
            IN  \A a \in answers :
                  /\ Row(answers', a.id).jawaban \in {a.jawaban, Less(a.jawaban)}
                  /\ Row(answers', a.id).progress_jawaban
                       \in {a.progress_jawaban,
                            IF IsNull(a.progress_jawaban) THEN Null
                            ELSE Some(Less(a.progress_jawaban[1]))}]_vars

\* C30: credentials round-trip: loginUser with an email and a password
\* returns the user of that email exactly when the password is the one the
\* user handlers last stored for that user, that is when the stored hash is
\* hashPassword of it, and returns null otherwise.
C30_LoginAcceptsTheStoredPassword ==
  [][last'.op = "loginUser"
     => LET email == last'.a[1]
            password == last'.a[2]
            result == last'.a[3]
        IN  /\ ~IsNull(result) => (result[1] \in users /\ result[1].email = email)
            /\ ~IsNull(result)
                 <=> \E u \in users : u.email = email /\ u.password = hashPassword(password)]_vars

=============================================================================
